---- MODULE Spec2Model ----
(***************************************************************************)
(* Model of the DyhtApp interaction controller (src/unnamed/part_002).     *)
(*                                                                         *)
(* The controller runs on a single UI thread: every handler runs to        *)
(* completion or suspends at an `await invoke(...)`.  One action models    *)
(* the part of a handler up to its backend call, one action models the     *)
(* continuation that runs when that call settles.  Backend calls settle    *)
(* in any order.  A text is a sequence of chunks; typed text is a sequence *)
(* of one-character chunks, fixed messages are one-chunk sequences.        *)
(* Wall-clock values (timestamps, clip ids), console output, dialogs and   *)
(* inline styles (colours, panel height and display) are not modelled.     *)
(***************************************************************************)
EXTENDS Naturals, Integers, Sequences, FiniteSets, TLC

VARIABLES
    isRecording,      \* DyhtApp.isRecording
    chatHistory,      \* DyhtApp.chatHistory, entries without their timestamp
    audioClips,       \* DyhtApp.audioClips, clips without id and timestamp
    isAdminVerified,  \* DyhtApp.isAdminVerified
    disabled,         \* the disabled property of every control
    clipRendered,     \* the clip list holds a rendered item (with its two buttons)
    statusText,       \* textContent of #recording-status
    chatInputValue,   \* value of #chat-input
    calls,            \* the backend calls issued so far, in order of issue
    rafPending,       \* animation frame callbacks that are scheduled
    lastFrame,        \* the amplitude branch the last drawn frame took
    origin            \* history: for each transcript entry, the call of the
                      \* handler run that added it (0: a run without a call)

vars == <<isRecording, chatHistory, audioClips, isAdminVerified,
          disabled, clipRendered, statusText, chatInputValue,
          calls, rafPending, lastFrame,
          origin>>

(* ---------------- bounds ---------------- *)
\* handler runs that write to the transcript: backend calls and model switches
MaxRuns == 3

(* ---------------- texts ---------------- *)
Whitespace == {" "}

\* the values the chat input is given: empty, whitespace only, padded text
Texts == {<<>>, <<" ", " ">>, <<" ", "a", " ", "b", " ">>}
AdminCodes == {<<>>, <<" ">>, <<"a">>}
Replies == {<<"hi">>, <<"ok">>}
Transcriptions == {<<"words">>}
Models == {<<"llama">>}
Themes == {"dark"}

RECURSIVE TrimStart(_)
TrimStart(s) ==
    IF s = <<>> THEN s
    ELSE IF Head(s) \in Whitespace THEN TrimStart(Tail(s)) ELSE s

RECURSIVE TrimEnd(_)
TrimEnd(s) ==
    IF s = <<>> THEN s
    ELSE IF s[Len(s)] \in Whitespace THEN TrimEnd(SubSeq(s, 1, Len(s) - 1)) ELSE s

Trim(s) == TrimEnd(TrimStart(s))

InitOkMsg == <<"Dwight AI agent initialized. Ready to assist!">>
InitFailMsg == <<"Failed to initialize agent. Please check the console for errors.">>
ChatFallbackMsg == <<"Sorry, I encountered an error processing your message.">>
KillMsg == <<"Emergency shutdown activated. All AI functions disabled.">>
AudioProcessedMsg(transcription) == <<"Audio processed: ">> \o transcription
SwitchedMsg(model) == <<"Switched to ">> \o model \o <<" model">>

(* ---------------- controls ---------------- *)
StaticButtons == {"send-btn", "record-btn", "stop-btn", "verify-admin",
                  "kill-switch", "minimize-btn", "close-btn"}
ClipButtons == {"clip-play", "clip-delete"}
TextInputs == {"chat-input", "admin-code"}
Selectors == {"model-select", "theme-select"}
Checkboxes == {"voice-activation", "auto-transcribe", "smart-response"}
Controls == StaticButtons \cup ClipButtons \cup TextInputs \cup Selectors \cup Checkboxes

\* the controls that exist in the document in a state with the given clip list rendering
Present(rendered) == IF rendered THEN Controls ELSE Controls \ ClipButtons

\* document.querySelectorAll('button:not(#kill-switch)')
KillSelector(rendered) ==
    (StaticButtons \cup (IF rendered THEN ClipButtons ELSE {})) \ {"kill-switch"}

(* ---------------- backend calls ---------------- *)
Call(name, arg) == [name |-> name, arg |-> arg, status |-> "pending", reply |-> <<>>]

PendingIds(name) == {i \in 1..Len(calls) : calls[i].name = name /\ calls[i].status = "pending"}

\* invoke(name, arg): the call is issued and is pending
Invoke(name, arg) == calls' = Append(calls, Call(name, arg))

\* the promise of call id settles
Settle(id, ok, reply) ==
    calls' = [calls EXCEPT ![id].status = IF ok THEN "resolved" ELSE "rejected",
                           ![id].reply = IF ok THEN reply ELSE <<>>]

(* ---------------- addChatMessage ---------------- *)
\* faulty variant: the entry is put at the front of the transcript
AddChatMessage_Unshift(role, content, by) ==
    /\ chatHistory' = <<[role |-> role, content |-> content]>> \o chatHistory
    /\ origin' = <<by>> \o origin

\* by: the backend call (0: none) of the handler run that adds the entry
AddChatMessage(role, content, by) ==
    /\ chatHistory' = Append(chatHistory, [role |-> role, content |-> content])
    /\ origin' = Append(origin, by)

(* ---------------- frames ---------------- *)
chatVars == <<chatHistory, origin>>
recordVars == <<isRecording, statusText>>
clipVars == <<audioClips, clipRendered>>
renderVars == <<rafPending, lastFrame>>

(* ---------------- initial state ---------------- *)
\* The fields as the class initialises them and init() run up to its first
\* backend call: init_agent is pending.  The markup is not part of the
\* sources: the document is taken to hold every element the controller looks
\* up, with the record/stop controls and the status text as stopRecording
\* leaves them when idle, and an empty clip list.
Init ==
    /\ isRecording = FALSE
    /\ chatHistory = <<>>
    /\ audioClips = <<>>
    /\ isAdminVerified = FALSE
    /\ disabled = [c \in Controls |-> c = "stop-btn"]
    /\ clipRendered = FALSE
    /\ statusText = "Ready"
    /\ chatInputValue = <<>>
    /\ calls = <<Call("init_agent", <<>>)>>
    /\ rafPending = 0
    /\ lastFrame = "none"
    /\ origin = <<>>

(* ---------------- render loop ---------------- *)
\* one run of drawCircularWaveform: the amplitude branch it draws
DrawCircularWaveform == lastFrame' = IF isRecording THEN "recording" ELSE "idle"

\* faulty variant: the frame does not schedule the next one
AnimationFrame_NoReschedule ==
    /\ rafPending > 0
    /\ DrawCircularWaveform
    /\ rafPending' = rafPending - 1
    /\ UNCHANGED <<chatVars, recordVars, clipVars, isAdminVerified, chatInputValue,
                   disabled, calls>>

\* a scheduled animation frame runs and schedules the next one
AnimationFrame ==
    /\ rafPending > 0
    /\ DrawCircularWaveform
    /\ rafPending' = (rafPending - 1) + 1
    /\ UNCHANGED <<chatVars, recordVars, clipVars, isAdminVerified, chatInputValue,
                   disabled, calls>>

(* ---------------- init ---------------- *)
\* faulty variant: a rejected init_agent is only logged
LoadInitialDataSettled_SilentFailure(id, ok) ==
    /\ Settle(id, ok, <<>>)
    /\ IF ok THEN AddChatMessage("assistant", InitOkMsg, id) ELSE UNCHANGED chatVars
    /\ DrawCircularWaveform
    /\ rafPending' = rafPending + 1
    /\ UNCHANGED <<recordVars, clipVars, isAdminVerified, chatInputValue, disabled>>

\* init_agent settles: loadInitialData's continuation, then the rest of
\* init(): setupWaveformCanvases and startLiveWaveform (first frame drawn).
LoadInitialDataSettled(id, ok) ==
    /\ Settle(id, ok, <<>>)
    /\ AddChatMessage("assistant", IF ok THEN InitOkMsg ELSE InitFailMsg, id)
    /\ DrawCircularWaveform
    /\ rafPending' = rafPending + 1
    /\ UNCHANGED <<recordVars, clipVars, isAdminVerified, chatInputValue, disabled>>

(* ---------------- chat ---------------- *)
\* faulty variant: the input is not trimmed before the emptiness test
SendMessage_NoTrim ==
    LET message == chatInputValue IN
    IF message = <<>>
    THEN UNCHANGED vars
    ELSE /\ AddChatMessage("user", message, Len(calls) + 1)
         /\ chatInputValue' = <<>>
         /\ Invoke("chat_with_agent", message)
         /\ UNCHANGED <<recordVars, clipVars, isAdminVerified,
                        disabled, renderVars>>

SendMessage ==
    LET message == Trim(chatInputValue) IN
    IF message = <<>>
    THEN UNCHANGED vars
    ELSE /\ AddChatMessage("user", message, Len(calls) + 1)
         /\ chatInputValue' = <<>>
         /\ Invoke("chat_with_agent", message)
         /\ UNCHANGED <<recordVars, clipVars, isAdminVerified,
                        disabled, renderVars>>

\* faulty variant: the answer is put right after the user entry of its send
SendMessageSettled_Threaded(id, ok, response) ==
    LET p == CHOOSE q \in 1..Len(chatHistory) : origin[q] = id
        answer == [role |-> "assistant",
                   content |-> IF ok THEN response ELSE ChatFallbackMsg]
    IN  /\ Settle(id, ok, response)
        /\ chatHistory' = SubSeq(chatHistory, 1, p) \o <<answer>>
                              \o SubSeq(chatHistory, p + 1, Len(chatHistory))
        /\ origin' = SubSeq(origin, 1, p) \o <<id>> \o SubSeq(origin, p + 1, Len(origin))
        /\ UNCHANGED <<recordVars, clipVars, isAdminVerified, chatInputValue, disabled,
                       renderVars>>

\* faulty variant: the reply is dropped and the fallback shown also on success
SendMessageSettled_IgnoresReply(id, ok, response) ==
    /\ Settle(id, ok, response)
    /\ AddChatMessage("assistant", ChatFallbackMsg, id)
    /\ UNCHANGED <<recordVars, clipVars, isAdminVerified, chatInputValue, disabled,
                   renderVars>>

\* faulty variant: a rejected call is only logged
SendMessageSettled_SilentFailure(id, ok, response) ==
    /\ Settle(id, ok, response)
    /\ IF ok THEN AddChatMessage("assistant", response, id) ELSE UNCHANGED chatVars
    /\ UNCHANGED <<recordVars, clipVars, isAdminVerified, chatInputValue, disabled,
                   renderVars>>

SendMessageSettled(id, ok, response) ==
    /\ Settle(id, ok, response)
    /\ AddChatMessage("assistant", IF ok THEN response ELSE ChatFallbackMsg, id)
    /\ UNCHANGED <<recordVars, clipVars, isAdminVerified, chatInputValue, disabled,
                   renderVars>>

(* ---------------- recording ---------------- *)
AudioData == <<1, 2, 3, 4, 5>>

StartRecording ==
    /\ isRecording' = TRUE
    /\ disabled' = [disabled EXCEPT !["record-btn"] = TRUE, !["stop-btn"] = FALSE]
    /\ statusText' = "Recording..."
    /\ UNCHANGED <<chatVars, clipVars, isAdminVerified, chatInputValue, calls,
                   renderVars>>

\* faulty variant: the controls are not switched back when the stop is initiated
StopRecording_KeepsControls ==
    /\ isRecording' = FALSE
    /\ statusText' = "Processing..."
    /\ Invoke("process_audio", AudioData)
    /\ UNCHANGED <<chatVars, clipVars, isAdminVerified, chatInputValue, disabled,
                   renderVars>>

StopRecording ==
    /\ isRecording' = FALSE
    /\ disabled' = [disabled EXCEPT !["record-btn"] = FALSE, !["stop-btn"] = TRUE]
    /\ statusText' = "Processing..."
    /\ Invoke("process_audio", AudioData)
    /\ UNCHANGED <<chatVars, clipVars, isAdminVerified, chatInputValue, renderVars>>

ToggleRecording == IF ~isRecording THEN StartRecording ELSE StopRecording

\* the clip list is rendered anew (one item, fresh buttons) and a clip is pushed
UpdateAudioClipsList ==
    /\ clipRendered' = TRUE
    /\ disabled' = [c \in Controls |-> IF c \in ClipButtons THEN FALSE ELSE disabled[c]]
    /\ audioClips' = Append(audioClips,
                            [duration_ms |-> 5200, file_path |-> "placeholder.wav",
                             transcription |-> "Placeholder transcription",
                             waveform_data |-> <<>>, tags |-> <<"recorded">>])

\* faulty variant: the status is set back to ready whatever the outcome of the call
StopRecordingSettled_ReadyAlways(id, ok, transcription) ==
    /\ Settle(id, ok, transcription)
    /\ statusText' = "Ready"
    /\ IF ok
       THEN /\ AddChatMessage("assistant", AudioProcessedMsg(transcription), id)
            /\ UpdateAudioClipsList
       ELSE UNCHANGED <<chatVars, clipVars, disabled>>
    /\ UNCHANGED <<isRecording, isAdminVerified, chatInputValue, renderVars>>

\* faulty variant: the placeholder clip is pushed whatever the outcome of the call
StopRecordingSettled_ClipOnFailure(id, ok, transcription) ==
    /\ Settle(id, ok, transcription)
    /\ IF ok
       THEN /\ statusText' = "Ready"
            /\ AddChatMessage("assistant", AudioProcessedMsg(transcription), id)
            /\ UpdateAudioClipsList
       ELSE /\ UpdateAudioClipsList
            /\ UNCHANGED <<statusText, chatVars>>
    /\ UNCHANGED <<isRecording, isAdminVerified, chatInputValue, renderVars>>

StopRecordingSettled(id, ok, transcription) ==
    /\ Settle(id, ok, transcription)
    /\ IF ok
       THEN /\ statusText' = "Ready"
            /\ AddChatMessage("assistant", AudioProcessedMsg(transcription), id)
            /\ UpdateAudioClipsList
       ELSE UNCHANGED <<statusText, chatVars, clipVars, disabled>>
    /\ UNCHANGED <<isRecording, isAdminVerified, chatInputValue, renderVars>>

(* ---------------- settings ---------------- *)
\* faulty variant: the test for an empty code is missing
VerifyAdminCode_NoEmptyCheck(adminCode) ==
    /\ isAdminVerified' = TRUE
    /\ UNCHANGED <<chatVars, recordVars, clipVars, chatInputValue, disabled,
                   calls, renderVars>>

VerifyAdminCode(adminCode) ==
    IF adminCode = <<>>
    THEN UNCHANGED vars
    ELSE /\ isAdminVerified' = TRUE
         /\ UNCHANGED <<chatVars, recordVars, clipVars, chatInputValue, disabled,
                        calls, renderVars>>

SwitchModel(model) ==
    /\ AddChatMessage("assistant", SwitchedMsg(model), 0)
    /\ UNCHANGED <<recordVars, clipVars, isAdminVerified, chatInputValue, disabled,
                   calls, renderVars>>

SwitchTheme(theme) == UNCHANGED vars

(* ---------------- emergency ---------------- *)
\* faulty variant: the answer to the confirmation prompt is ignored
EmergencyKillSwitch_NoConfirm(confirmed) ==
    /\ Invoke("emergency_kill_switch", <<>>)
    /\ UNCHANGED <<chatVars, recordVars, clipVars, isAdminVerified, chatInputValue,
                   disabled, renderVars>>

EmergencyKillSwitch(confirmed) ==
    IF confirmed
    THEN /\ Invoke("emergency_kill_switch", <<>>)
         /\ UNCHANGED <<chatVars, recordVars, clipVars, isAdminVerified, chatInputValue,
                        disabled, renderVars>>
    ELSE UNCHANGED vars

EmergencyKillSwitchSettled(id, ok) ==
    /\ Settle(id, ok, <<>>)
    /\ IF ok
       THEN /\ AddChatMessage("assistant", KillMsg, id)
            /\ disabled' = [c \in Controls |->
                              IF c \in KillSelector(clipRendered) THEN TRUE
                              ELSE disabled[c]]
       ELSE UNCHANGED <<chatVars, disabled>>
    /\ UNCHANGED <<recordVars, clipVars, isAdminVerified, chatInputValue, renderVars>>

(* ---------------- panel and triggers ---------------- *)
MinimizePanel ==
    UNCHANGED vars

\* faulty variant: closing the panel also clears the recording flag
ClosePanel_StopsRecording ==
    /\ isRecording' = FALSE
    /\ UNCHANGED <<chatVars, statusText, clipVars, isAdminVerified, chatInputValue,
                   disabled, calls, renderVars>>

ClosePanel ==
    UNCHANGED vars

ToggleVoiceActivation(enabled) == UNCHANGED vars

ToggleAutoTranscribe(enabled) == UNCHANGED vars

ToggleSmartResponse(enabled) == UNCHANGED vars

(* ---------------- events (setupEventListeners) ---------------- *)
\* a control takes user events when it is in the document and not disabled
Usable(c) == c \in Present(clipRendered) /\ ~disabled[c]

Switches == Cardinality({i \in 1..Len(origin) : origin[i] = 0})

CanInvoke == Len(calls) + Switches < MaxRuns

TypeChat(t) ==
    /\ Usable("chat-input")
    /\ chatInputValue' = t
    /\ UNCHANGED <<chatVars, recordVars, clipVars, isAdminVerified,
                   disabled, calls, renderVars>>

ClickSend ==
    /\ Usable("send-btn")
    /\ Trim(chatInputValue) # <<>> => CanInvoke
    /\ SendMessage

PressEnter ==
    /\ Usable("chat-input")
    /\ Trim(chatInputValue) # <<>> => CanInvoke
    /\ SendMessage

ClickRecord ==
    /\ Usable("record-btn")
    /\ isRecording => CanInvoke
    /\ ToggleRecording

ClickStop ==
    /\ Usable("stop-btn")
    /\ CanInvoke
    /\ StopRecording

\* adminCode: the value of the admin-code input when the button is clicked
ClickVerifyAdmin(adminCode) ==
    /\ Usable("verify-admin")
    /\ VerifyAdminCode(adminCode)

ChangeModel(model) ==
    /\ Usable("model-select")
    /\ CanInvoke
    /\ SwitchModel(model)

ChangeTheme(theme) ==
    /\ Usable("theme-select")
    /\ SwitchTheme(theme)

ClickKillSwitch(confirmed) ==
    /\ Usable("kill-switch")
    /\ confirmed => CanInvoke
    /\ EmergencyKillSwitch(confirmed)

ClickMinimize ==
    /\ Usable("minimize-btn")
    /\ MinimizePanel

ClickClose ==
    /\ Usable("close-btn")
    /\ ClosePanel

ChangeVoiceActivation(enabled) ==
    /\ Usable("voice-activation")
    /\ ToggleVoiceActivation(enabled)

ChangeAutoTranscribe(enabled) ==
    /\ Usable("auto-transcribe")
    /\ ToggleAutoTranscribe(enabled)

ChangeSmartResponse(enabled) ==
    /\ Usable("smart-response")
    /\ ToggleSmartResponse(enabled)

Frame ==
    /\ AnimationFrame

(* ---------------- settlements of backend calls ---------------- *)
InitAgentSettles(ok) ==
    \E id \in PendingIds("init_agent") :
        /\ LoadInitialDataSettled(id, ok)

ChatSettles(ok, response) ==
    \E id \in PendingIds("chat_with_agent") :
        /\ SendMessageSettled(id, ok, response)

ProcessAudioSettles(ok, transcription) ==
    \E id \in PendingIds("process_audio") :
        /\ StopRecordingSettled(id, ok, transcription)

KillSwitchSettles(ok) ==
    \E id \in PendingIds("emergency_kill_switch") :
        /\ EmergencyKillSwitchSettled(id, ok)

Next ==
    \/ \E t \in Texts : TypeChat(t)
    \/ ClickSend
    \/ PressEnter
    \/ ClickRecord
    \/ ClickStop
    \/ \E c \in AdminCodes : ClickVerifyAdmin(c)
    \/ \E m \in Models : ChangeModel(m)
    \/ \E t \in Themes : ChangeTheme(t)
    \/ \E confirmed \in BOOLEAN : ClickKillSwitch(confirmed)
    \/ ClickMinimize
    \/ ClickClose
    \/ \E e \in BOOLEAN : ChangeVoiceActivation(e)
    \/ \E e \in BOOLEAN : ChangeAutoTranscribe(e)
    \/ \E e \in BOOLEAN : ChangeSmartResponse(e)
    \/ Frame
    \/ \E ok \in BOOLEAN : InitAgentSettles(ok)
    \/ \E ok \in BOOLEAN, r \in Replies : ChatSettles(ok, r)
    \/ \E ok \in BOOLEAN, t \in Transcriptions : ProcessAudioSettles(ok, t)
    \/ \E ok \in BOOLEAN : KillSwitchSettles(ok)

Spec == Init /\ [][Next]_vars

(* ======================= properties ======================= *)
IsPrefix(s, t) == Len(s) <= Len(t) /\ SubSeq(t, 1, Len(s)) = s

CallIds(name, status) == {i \in 1..Len(calls) : calls[i].name = name /\ calls[i].status = status}

\* the transcript entries added by the handler run that issued call id, in order
EntriesOf(id) ==
    LET idx == {i \in 1..Len(chatHistory) : origin[i] = id}
        RECURSIVE Pick(_)
        Pick(n) == IF n = 0 THEN <<>>
                   ELSE IF n \in idx THEN Append(Pick(n - 1), chatHistory[n])
                   ELSE Pick(n - 1)
    IN  Pick(Len(chatHistory))

Entry(role, content) == [role |-> role, content |-> content]

\* this step is the settlement of a pending call of the given name with the given outcome
Settles(name, outcome) ==
    \E id \in 1..Len(calls) :
        /\ calls[id].name = name
        /\ calls[id].status = "pending"
        /\ calls'[id].status = outcome

\* this step issues exactly one call, of the given name
Issues(name) ==
    /\ Len(calls') = Len(calls) + 1
    /\ calls'[Len(calls')].name = name

KillDone == CallIds("emergency_kill_switch", "resolved") # {}

Enabled(c) == c \in Present(clipRendered) /\ ~disabled[c]

(* ---- C1 ---- *)
\* C1: a send of the non-empty trimmed text m whose chat_with_agent call has
\* resolved to r has added exactly two transcript entries, {user, m} and
\* then {assistant, r}.
C1_SendResolvedAddsTwo ==
    \A id \in CallIds("chat_with_agent", "resolved") :
        /\ calls[id].arg # <<>>
        /\ calls[id].arg = Trim(calls[id].arg)
        /\ EntriesOf(id) = <<Entry("user", calls[id].arg),
                             Entry("assistant", calls[id].reply)>>

C1_Witness ==
    \E id \in CallIds("chat_with_agent", "resolved") :
        /\ calls[id].arg = <<"a", " ", "b">>
        /\ calls[id].reply = <<"hi">>
        /\ Len(chatHistory) > 2

(* ---- C2 ---- *)
\* C2: a send (button or Enter) whose input is empty or only whitespace
\* leaves the transcript, the clip list, the recording and admin flags and
\* the control states unchanged and issues no backend call.
C2_BlankSendIsNoOp ==
    [][((ClickSend \/ PressEnter) /\ Trim(chatInputValue) = <<>>)
        => UNCHANGED <<chatHistory, audioClips, isRecording, isAdminVerified,
                       disabled, clipRendered, statusText, calls>>]_vars

C2_Witness ==
    /\ chatInputValue = <<" ", " ">>
    /\ Usable("send-btn")
    /\ CallIds("chat_with_agent", "resolved") # {}

(* ---- C3 ---- *)
\* C3: starting a recording sets the flag, disables record and enables
\* stop; initiating a stop clears the flag, enables record and disables stop
\* in that same step, and the settlement of process_audio, resolved or
\* rejected, changes none of the three.
C3_StartStopControls ==
    [][/\ (ClickRecord /\ ~isRecording)
            => isRecording' /\ disabled'["record-btn"] /\ ~disabled'["stop-btn"]
       /\ (ClickStop \/ (ClickRecord /\ isRecording))
            => ~isRecording' /\ ~disabled'["record-btn"] /\ disabled'["stop-btn"]
       /\ (Settles("process_audio", "resolved") \/ Settles("process_audio", "rejected"))
            => /\ isRecording' = isRecording
               /\ disabled'["record-btn"] = disabled["record-btn"]
               /\ disabled'["stop-btn"] = disabled["stop-btn"]]_vars

C3_Witness ==
    /\ CallIds("process_audio", "rejected") # {}
    /\ CallIds("process_audio", "pending") # {}
    /\ ~isRecording /\ ~disabled["record-btn"] /\ disabled["stop-btn"]

(* ---- C4 ---- *)
\* C4 (as claimed): the length of the clip list equals the number of stop
\* operations that have completed (their process_audio call has settled).
C4_ClipPerCompletedStop ==
    Len(audioClips) = Cardinality(CallIds("process_audio", "resolved")
                                  \cup CallIds("process_audio", "rejected"))

\* C4 (amended): the length of the clip list equals the number of stops whose
\* process_audio call has resolved; a stop whose call is pending or was
\* rejected has appended none.
C4_ClipPerResolvedStop ==
    Len(audioClips) = Cardinality(CallIds("process_audio", "resolved"))

C4_Witness ==
    /\ Len(audioClips) = 1
    /\ CallIds("process_audio", "rejected") # {}

(* ---- C5 ---- *)
\* C5: in every reachable state, if the recording flag is true then the stop
\* control is enabled and the record control is disabled.
C5_RecordingImpliesControls ==
    isRecording => (~disabled["stop-btn"] /\ disabled["record-btn"])

(* ---- C6 ---- *)
\* C6: a confirmed kill switch issues exactly one emergency_kill_switch call,
\* and when that call resolves one confirmation assistant message is appended
\* and every control other than the kill switch itself is left disabled.
C6_KillDisablesEveryControl ==
    [][/\ ClickKillSwitch(TRUE) => Issues("emergency_kill_switch")
       /\ Settles("emergency_kill_switch", "resolved")
            => /\ chatHistory' = Append(chatHistory, Entry("assistant", KillMsg))
               /\ \A c \in Present(clipRendered') \ {"kill-switch"} : disabled'[c]]_vars

(* ---- C7 ---- *)
\* C7: declining the confirmation of the kill switch issues no backend call,
\* adds no transcript entry and leaves every control's enabled state as it was.
C7_DeclinedKillIsNoOp ==
    [][ClickKillSwitch(FALSE)
        => UNCHANGED <<calls, chatHistory, disabled, clipRendered>>]_vars

C7_Witness ==
    /\ Usable("kill-switch")
    /\ isRecording
    /\ Len(chatHistory) > 0
    /\ CallIds("emergency_kill_switch", "pending") = {}
    /\ ~KillDone

(* ---- C8 ---- *)
\* C8: once a confirmed kill switch has completed, no step (operation or
\* settlement of a pending call) makes a control other than the kill switch
\* usable that was not usable before the step.
C8_LockoutIsTerminal ==
    [][KillDone =>
        \A c \in Controls \ {"kill-switch"} :
            (c \in Present(clipRendered') /\ ~disabled'[c]) => Enabled(c)]_vars

(* ---- C9 ---- *)
\* C9: across every step the transcript before the step is a prefix of the
\* transcript after it.
C9_TranscriptAppendOnly ==
    [][IsPrefix(chatHistory, chatHistory')]_vars

C9_Witness ==
    /\ Len(chatHistory) >= 4
    /\ \E i \in 1..Len(origin) : origin[i] = 0

(* ---- C10 ---- *)
\* C10: a send whose chat_with_agent call was rejected has added exactly two
\* transcript entries, the user entry and then one assistant entry holding
\* the fixed fallback string, and the rejection step changes nothing but the
\* transcript.
C10_SendRejectedAddsFallback ==
    /\ [](\A id \in CallIds("chat_with_agent", "rejected") :
             EntriesOf(id) = <<Entry("user", calls[id].arg),
                               Entry("assistant", ChatFallbackMsg)>>)
    /\ [][Settles("chat_with_agent", "rejected")
           => UNCHANGED <<isRecording, audioClips, isAdminVerified, disabled,
                          clipRendered, statusText, chatInputValue, renderVars>>]_vars

C10_Witness ==
    \E id \in CallIds("chat_with_agent", "rejected") :
        /\ calls[id].arg = <<"a", " ", "b">>
        /\ isRecording

(* ---- C11 ---- *)
CallNames == {"init_agent", "chat_with_agent", "process_audio", "emergency_kill_switch"}

\* this step appends exactly one assistant entry to the transcript
AppendsOneAssistant ==
    /\ Len(chatHistory') = Len(chatHistory) + 1
    /\ IsPrefix(chatHistory, chatHistory')
    /\ chatHistory'[Len(chatHistory')].role = "assistant"

\* C11: for each of init_agent, chat_with_agent, process_audio and
\* emergency_kill_switch, the step in which the call is rejected appends one
\* assistant fallback message to the transcript.
C11_EveryFailureSurfaced ==
    [][\A n \in CallNames : Settles(n, "rejected") => AppendsOneAssistant]_vars

(* ---- C12 ---- *)
\* the lifecycle state the status text shows
Lifecycle(text) ==
    CASE text = "Ready" -> "Idle"
      [] text = "Recording..." -> "Recording"
      [] text = "Processing..." -> "Processing"

\* C12: the recording lifecycle only moves Idle -> Recording, Recording ->
\* Processing and Processing -> Idle, and a settlement of process_audio,
\* resolved or rejected, that finds it in Processing leaves it in Idle.
C12_RecordingLifecycle ==
    [][/\ Lifecycle(statusText') # Lifecycle(statusText)
            => <<Lifecycle(statusText), Lifecycle(statusText')>> \in
                  {<<"Idle", "Recording">>, <<"Recording", "Processing">>,
                   <<"Processing", "Idle">>}
       /\ ((Settles("process_audio", "resolved") \/ Settles("process_audio", "rejected"))
             /\ Lifecycle(statusText) = "Processing")
            => Lifecycle(statusText') = "Idle"]_vars

(* ---- C13 ---- *)
\* C13: verifying with a non-empty code leaves the verified flag true,
\* verifying with the empty code leaves it as it was, and no step sets the
\* flag back to false.
C13_AdminVerifiedByEmptiness ==
    [][/\ \A c \in AdminCodes :
            ClickVerifyAdmin(c) =>
                IF c # <<>> THEN isAdminVerified'
                ELSE isAdminVerified' = isAdminVerified
       /\ isAdminVerified => isAdminVerified']_vars

C13_Witness ==
    /\ isAdminVerified
    /\ KillDone
    /\ Len(chatHistory) >= 2

(* ---- C14 ---- *)
InitIds == {i \in 1..Len(calls) : calls[i].name = "init_agent"}

\* C14: initialization has added nothing to the transcript while init_agent
\* is pending, and exactly one assistant message once it has settled: the
\* ready message if it resolved, the failure message if it was rejected; the
\* message is appended in the step in which the call settles.
C14_InitAddsOneMessage ==
    /\ [](\A id \in InitIds :
             EntriesOf(id) =
                 CASE calls[id].status = "pending" -> <<>>
                   [] calls[id].status = "resolved" -> <<Entry("assistant", InitOkMsg)>>
                   [] calls[id].status = "rejected" -> <<Entry("assistant", InitFailMsg)>>)
    /\ [][/\ Settles("init_agent", "resolved")
               => chatHistory' = Append(chatHistory, Entry("assistant", InitOkMsg))
          /\ Settles("init_agent", "rejected")
               => chatHistory' = Append(chatHistory, Entry("assistant", InitFailMsg))]_vars

C14_Witness ==
    /\ \E id \in InitIds : calls[id].status = "rejected"
    /\ CallIds("chat_with_agent", "resolved") # {}
    /\ chatHistory[Len(chatHistory)] = Entry("assistant", InitFailMsg)

C16_RenderLoopKeepsRunning ==
    /\ [](lastFrame # "none" => rafPending = 1)
    /\ [][Frame => /\ rafPending' = rafPending
                   /\ lastFrame' = IF isRecording THEN "recording" ELSE "idle"
                   /\ UNCHANGED <<isRecording, chatHistory, audioClips,
                                  isAdminVerified, disabled, clipRendered,
                                  statusText, chatInputValue, calls>>]_vars
    /\ [][rafPending = 1 => rafPending' = 1]_vars

C16_Witness ==
    /\ rafPending = 1
    /\ lastFrame = "recording"
    /\ ~isRecording
    /\ KillDone

(* ---- C17 ---- *)
\* the session state the cosmetic operations are claimed to leave alone
sessionVars == <<audioClips, isRecording, isAdminVerified, disabled, clipRendered, calls>>

\* C17: switch theme, the three checkbox toggles, minimize and close leave
\* the transcript, the clip list, the recording and admin flags and every
\* control's enabled state unchanged and issue no backend call; switch model
\* does the same except that it appends exactly one assistant confirmation
\* message.
C17_CosmeticOpsKeepSession ==
    [][/\ (\/ \E t \in Themes : ChangeTheme(t)
           \/ \E e \in BOOLEAN : ChangeVoiceActivation(e)
           \/ \E e \in BOOLEAN : ChangeAutoTranscribe(e)
           \/ \E e \in BOOLEAN : ChangeSmartResponse(e)
           \/ ClickMinimize
           \/ ClickClose)
            => UNCHANGED <<chatHistory, sessionVars>>
       /\ \A m \in Models :
            ChangeModel(m)
                => /\ chatHistory' = Append(chatHistory, Entry("assistant", SwitchedMsg(m)))
                   /\ UNCHANGED sessionVars]_vars

C17_Witness ==
    /\ \E i \in 1..Len(origin) :
          origin[i] = 0 /\ chatHistory[i] = Entry("assistant", SwitchedMsg(<<"llama">>))
    /\ isRecording
    /\ isAdminVerified
    /\ Usable("close-btn")
    /\ CallIds("chat_with_agent", "pending") # {}

(* ---- C18 ---- *)
\* C18: once a confirmed kill switch has completed, no step issues a
\* chat_with_agent or a process_audio call.
C18_NoCallsAfterKill ==
    [][KillDone => ~Issues("chat_with_agent") /\ ~Issues("process_audio")]_vars

(* ---- C19 ---- *)
\* C19: in every reachable state, if the recording flag is true then the
\* status text is the recording value.
C19_StatusAgreesWithFlag ==
    isRecording => statusText = "Recording..."

(* ---- C20 ---- *)
ChatIds == {i \in 1..Len(calls) : calls[i].name = "chat_with_agent"}

\* where in the transcript the entry of the given role of send id stands
PosOf(id, role) ==
    CHOOSE p \in 1..Len(chatHistory) : origin[p] = id /\ chatHistory[p].role = role

\* the assistant entry the settled call id is answered with
AnswerOf(call) ==
    Entry("assistant", IF call.status = "resolved" THEN call.reply ELSE ChatFallbackMsg)

\* C20: under every interleaving of sends and settlements, a send has added
\* its user entry and nothing else while its call is pending and exactly one
\* assistant entry, after its user entry, once the call has settled; user
\* entries stand in send order; the user entry is appended by the step that
\* issues the call and the assistant entry by the step in which that send's
\* own call settles (so replies stand in settlement order).
C20_OverlappingSends ==
    /\ [](\A i \in ChatIds :
             /\ EntriesOf(i) =
                    IF calls[i].status = "pending"
                    THEN <<Entry("user", calls[i].arg)>>
                    ELSE <<Entry("user", calls[i].arg), AnswerOf(calls[i])>>
             /\ \A j \in ChatIds : i < j => PosOf(i, "user") < PosOf(j, "user"))
    /\ [][/\ Issues("chat_with_agent")
               => /\ chatHistory' = Append(chatHistory,
                                           Entry("user", calls'[Len(calls')].arg))
                  /\ origin' = Append(origin, Len(calls'))
          /\ \A i \in ChatIds :
               (calls[i].status = "pending" /\ calls'[i].status # "pending")
                   => /\ chatHistory' = Append(chatHistory, AnswerOf(calls'[i]))
                      /\ origin' = Append(origin, i)]_vars

C20_Witness ==
    \E i, j \in ChatIds :
        /\ i < j
        /\ calls[i].status = "resolved" /\ calls[j].status = "rejected"
        /\ PosOf(j, "user") < PosOf(j, "assistant")
        /\ PosOf(j, "assistant") < PosOf(i, "assistant")

====
